---- MODULE Spec2Model ----
(***************************************************************************)
(* A model of gdc.py, the GDC API client: the filter constructor, the      *)
(* count-then-fetch listings, the label lookup, the page-walk over cases   *)
(* and the sequential file downloader.  Strings the code cuts or joins     *)
(* (file names, paths, headers) are sequences of one-character strings.    *)
(* The remote server and the local disk are the environment: every         *)
(* response and every I/O outcome is drawn from a small set.               *)
(***************************************************************************)
EXTENDS Integers, Sequences, FiniteSets, TLC

\* ------------------------------------------------------------------ bounds
MaxKeys == 2        \* most entries of ids_dict
MaxExt == 2         \* largest rename_ext_num
MaxT == 25          \* most case records the server holds
MaxHits == 2        \* most hits answered to label_files
MaxN == 3           \* most projects / files the server holds

\* --------------------------------------------------------- program constants
chunk_size == 1024
size == 10

\* ------------------------------------------------------------ string helpers
Min(a, b) == IF a < b THEN a ELSE b

\* s[i:] of Python for i >= 0
SliceFrom(s, i) == SubSeq(s, i + 1, Len(s))

\* s.find(sub): the lowest 0-based index where sub occurs in s, or -1
Find(sub, s) ==
    LET at == {i \in 0..(Len(s) - Len(sub)) : SubSeq(s, i + 1, i + Len(sub)) = sub}
    IN  IF at = {} THEN -1 ELSE CHOOSE i \in at : \A j \in at : i <= j

\* the 1-based index of the last occurrence of the character sep in s, or 0
LastIndex(sep, s) ==
    LET at == {i \in 1..Len(s) : s[i] = sep}
    IN  IF at = {} THEN 0 ELSE CHOOSE i \in at : \A j \in at : j <= i

\* the 1-based index of the first occurrence of the character sep in s, or 0
FirstIndex(sep, s) ==
    LET at == {i \in 1..Len(s) : s[i] = sep}
    IN  IF at = {} THEN 0 ELSE CHOOSE i \in at : \A j \in at : i <= j

\* s.split(sep, maxsplit): cuts at the leftmost separators (the mutant of rsplit)
RECURSIVE Split(_, _, _)
Split(s, sep, maxsplit) ==
    IF maxsplit = 0 \/ FirstIndex(sep, s) = 0
    THEN <<s>>
    ELSE <<SubSeq(s, 1, FirstIndex(sep, s) - 1)>>
         \o Split(SubSeq(s, FirstIndex(sep, s) + 1, Len(s)), sep, maxsplit - 1)

\* s.rsplit(sep, maxsplit): at most maxsplit cuts, made at the rightmost
\* separators; a negative maxsplit never reaches 0 and cuts everywhere
RECURSIVE RSplit(_, _, _)
RSplit(s, sep, maxsplit) ==
    IF maxsplit = 0 \/ LastIndex(sep, s) = 0
    THEN <<s>>
    ELSE Append(RSplit(SubSeq(s, 1, LastIndex(sep, s) - 1), sep, maxsplit - 1),
                SubSeq(s, LastIndex(sep, s) + 1, Len(s)))

\* sep.join(parts)
RECURSIVE Join(_, _)
Join(sep, parts) ==
    IF parts = <<>> THEN <<>>
    ELSE IF Len(parts) = 1 THEN parts[1]
    ELSE parts[1] \o <<sep>> \o Join(sep, Tail(parts))

DigitValue(c) ==
    CASE c = "0" -> 0 [] c = "1" -> 1 [] c = "2" -> 2 [] c = "3" -> 3
      [] c = "4" -> 4 [] c = "5" -> 5 [] c = "6" -> 6 [] c = "7" -> 7
      [] c = "8" -> 8 [] c = "9" -> 9

\* int(s) for a string of decimal digits
RECURSIVE ParseInt(_)
ParseInt(s) ==
    IF s = <<>> THEN 0
    ELSE 10 * ParseInt(SubSeq(s, 1, Len(s) - 1)) + DigitValue(s[Len(s)])

\* os.path.join(a, b) for a relative b
OsPathJoin(a, b) ==
    IF a = <<>> THEN b
    ELSE IF a[Len(a)] = "/" THEN a \o b
    ELSE a \o <<"/">> \o b

\* the working directory of the process
Cwd == <<"/", "w">>

\* os.path.abspath(p) for a normalised relative p
AbsPath(p) == IF p = <<>> THEN Cwd ELSE OsPathJoin(Cwd, p)

\* d[k] = v on a dict
DictSet(d, k, v) == [x \in (DOMAIN d) \cup {k} |-> IF x = k THEN v ELSE d[x]]

\* d.setdefault(k, v): keeps an existing binding (the mutant of d[k] = v)
DictSetDefault(d, k, v) ==
    [x \in (DOMAIN d) \cup {k} |-> IF x \in DOMAIN d THEN d[x] ELSE v]

\* an update in which the existing bindings win (the mutant of update)
DictUpdateKeep(d, e) ==
    [x \in (DOMAIN d) \cup (DOMAIN e) |-> IF x \in DOMAIN d THEN d[x] ELSE e[x]]

\* d.update(e) on a dict: the bindings of e replace those of d
DictUpdate(d, e) ==
    [x \in (DOMAIN d) \cup (DOMAIN e) |-> IF x \in DOMAIN e THEN e[x] ELSE d[x]]

EmptyDict == <<>>

\* ------------------------------------------------------------------- state
VARIABLES
    op,              \* the function that was called
    pc,              \* its position, "done" after its return, "error" after a raise
    err,             \* the exception that left the function, "" if none
    requests,        \* HTTP requests issued so far by the call
    io_error_at,     \* the request count when a local I/O error was raised, 0 if none
    statuses,        \* the status code of each response, in request order
    \* and_eq_filter_constructor
    filter_dict, key_order, operands_list, query_filter,
    \* download_data
    ids_dict, dir_path, rename_ext_num, disk, file_count, downloaded,
    response, file_name, file_path, file_size, file_dict, opened, status_line,
    \* label_files
    python_major, label_hits, hit_index, labels, uuids_dict,
    \* get_all_case_ids
    server_cases, case_hit, cur_page, total_pages, cases_dataframe, cases_tsv,
    \* get_all_project_ids, get_files_uuids
    server_total, total, id_list

filter_vars == <<filter_dict, key_order, operands_list, query_filter>>
download_vars == <<ids_dict, dir_path, rename_ext_num, disk, file_count, downloaded,
                   response, file_name, file_path, file_size, file_dict, opened,
                   status_line>>
label_vars == <<python_major, label_hits, hit_index, labels, uuids_dict>>
cases_vars == <<server_cases, case_hit, cur_page, total_pages, cases_dataframe,
                cases_tsv>>
listing_vars == <<server_total, total, id_list>>
vars == <<op, pc, err, requests, io_error_at, statuses, filter_vars, download_vars, label_vars,
          cases_vars, listing_vars>>

\* --------------------------------------------------------- the remote server
\* response.status_code == 200 (gdc.py:110, gdc.py:160)
IsOkAny(status_code) == status_code >= 200
IsOk(status_code) == status_code = 200

\* ------------------------------------------------------------ download_data
FilenameEq == <<"f", "i", "l", "e", "n", "a", "m", "e", "=">>

\* the Content-Disposition header the server sends for a file name
ContentDisposition(name) ==
    <<"a", "t", "t", "a", "c", "h", "m", "e", "n", "t", ";", " ">> \o FilenameEq \o name

SuggestedNames == {<<"a", ".", "b", ".", "c">>, <<"a", ".", "b">>, <<"a">>}
ContentLengths == {<<"1", "0", "2", "4">>, <<"1", "5", "0", "0">>}
UUIDs == {<<"u">>, <<"v">>}
KeyNames == <<"k1", "k2", "k3", "k4">>
DirPaths == {<<>>, <<"d">>}
\* names that may already be in the target directory when the call starts
OldNames == {<<"a", ".", "b", ".", "c">>, <<"a">>, <<"u", ".", "c">>}

\* what the data endpoint may answer to one GET: the file with its two headers,
\* or an error status whose headers carry no file name
DataResponses ==
    {[status_code |-> 200,
      headers |-> [h \in {"Content-Disposition", "Content-Length"} |->
                     IF h = "Content-Disposition" THEN ContentDisposition(n) ELSE l]] :
        n \in SuggestedNames, l \in ContentLengths}
    \cup {[status_code |-> 404, headers |-> [h \in {"Content-Length"} |-> <<"7">>]]}

NoResponse == [status_code |-> 0, headers |-> <<>>]
NoLine == [shown |-> FALSE, file_count |-> 0, file_name |-> <<>>, downloaded |-> 0,
           file_size |-> 0]

\* content_disp[content_disp.find('filename=') + 9:]
FileNameOf(content_disp) == SliceFrom(content_disp, Find(FilenameEq, content_disp) + 9)

\* os.path.isfile(file_path)
IsFile(d, path) == path \in DOMAIN d

\* rsplit, replace the stem by the UUID, join
RenameOnCollision(name, uuid, n) ==
    Join(".", [RSplit(name, ".", n) EXCEPT ![1] = uuid])

\* the name the file is written under
ResolveName(d, dir, name, uuid, n) ==
    IF IsFile(d, OsPathJoin(dir, name)) THEN RenameOnCollision(name, uuid, n) ELSE name

InitDownload ==
    /\ op = "download"
    /\ pc = "for"
    /\ \E n \in 0..MaxKeys : \E u \in [1..n -> UUIDs] :
          ids_dict = [i \in 1..n |-> [key |-> KeyNames[i], uuid |-> u[i]]]
    /\ dir_path \in DirPaths
    /\ rename_ext_num \in 0..MaxExt
    /\ \E old \in SUBSET OldNames :
          disk = [p \in {OsPathJoin(dir_path, x) : x \in old} |-> 1]
    /\ file_count = 0
    /\ downloaded = 0
    /\ response = NoResponse
    /\ file_name = <<>>
    /\ file_path = <<>>
    /\ file_size = 0
    /\ file_dict = EmptyDict
    /\ opened = <<>>
    /\ status_line = NoLine

IdleDownload ==
    /\ ids_dict = <<>>
    /\ dir_path = <<>>
    /\ rename_ext_num = 1
    /\ disk = EmptyDict
    /\ file_count = 0
    /\ downloaded = 0
    /\ response = NoResponse
    /\ file_name = <<>>
    /\ file_path = <<>>
    /\ file_size = 0
    /\ file_dict = EmptyDict
    /\ opened = <<>>
    /\ status_line = NoLine

\* one pass of the for loop up to the open(): the GET, the status test, the
\* name from the header, the collision test and the size
Get ==
    /\ op = "download" /\ pc = "for" /\ file_count < Len(ids_dict)
    /\ \E r \in DataResponses :
        /\ file_count' = file_count + 1
        /\ downloaded' = 0
        /\ requests' = requests + 1
        /\ statuses' = Append(statuses, r.status_code)
        /\ response' = r
        /\ IF IsOk(r.status_code)
           THEN IF "Content-Disposition" \in DOMAIN r.headers
                THEN /\ file_name' = ResolveName(disk, dir_path,
                                         FileNameOf(r.headers["Content-Disposition"]),
                                         ids_dict[file_count + 1].uuid, rename_ext_num)
                     /\ file_path' = OsPathJoin(dir_path, file_name')
                     /\ file_size' = ParseInt(r.headers["Content-Length"])
                     /\ pc' = "open"
                     /\ UNCHANGED <<err, status_line>>
                ELSE /\ pc' = "error"
                     /\ err' = "KeyError"
                     /\ UNCHANGED <<file_name, file_path, file_size, status_line>>
           ELSE /\ pc' = "for"
                /\ status_line' = NoLine
                /\ UNCHANGED <<err, file_name, file_path, file_size>>
    /\ UNCHANGED <<op, io_error_at, ids_dict, dir_path, rename_ext_num, disk, file_dict,
                   opened, filter_vars, label_vars, cases_vars, listing_vars>>

\* open(file_path, 'wb'): creates the file, or empties the one that is there
Open ==
    /\ op = "download" /\ pc = "open"
    /\ opened' = Append(opened, [key |-> ids_dict[file_count].key,
                                  path |-> file_path,
                                  existed |-> IsFile(disk, file_path),
                                  size |-> file_size,
                                  written |-> 0])
    /\ disk' = DictSet(disk, file_path, 0)
    /\ pc' = "write"
    /\ UNCHANGED <<op, err, requests, io_error_at, statuses, ids_dict, dir_path,
                   rename_ext_num, file_count, downloaded, response, file_name,
                   file_path, file_size, file_dict, status_line,
                   filter_vars, label_vars, cases_vars, listing_vars>>

\* open() raises: nothing in download_data catches it
OpenFail ==
    /\ op = "download" /\ pc = "open"
    /\ pc' = "error"
    /\ err' = "IOError"
    /\ io_error_at' = requests
    /\ UNCHANGED <<op, requests, statuses, download_vars,
                   filter_vars, label_vars, cases_vars, listing_vars>>

\* one pass of the chunk loop: write the chunk, count it, print the status
WriteChunk ==
    /\ op = "download" /\ pc = "write" /\ disk[file_path] < file_size
    /\ disk' = [disk EXCEPT ![file_path] = @ + Min(chunk_size, file_size - @)]
    /\ opened' = [opened EXCEPT ![Len(opened)].written =
                                     @ + Min(chunk_size, file_size - disk[file_path])]
    /\ downloaded' = downloaded + chunk_size
    /\ status_line' = [shown |-> TRUE, file_count |-> file_count,
                        file_name |-> file_name, downloaded |-> downloaded',
                        file_size |-> file_size]
    /\ UNCHANGED <<op, pc, err, requests, io_error_at, statuses, ids_dict, dir_path,
                   rename_ext_num, file_count, response, file_name, file_path,
                   file_size, file_dict,
                   filter_vars, label_vars, cases_vars, listing_vars>>

\* a handler that swallowed the error and went on to the next key (the mutant
\* of WriteFail)
WriteFailSkip ==
    /\ op = "download" /\ pc = "write" /\ disk[file_path] < file_size
    /\ pc' = "for"
    /\ io_error_at' = requests
    /\ status_line' = NoLine
    /\ UNCHANGED <<op, err, requests, statuses, ids_dict, dir_path, rename_ext_num,
                   disk, file_count, downloaded, response, file_name, file_path,
                   file_size, file_dict, opened,
                   filter_vars, label_vars, cases_vars, listing_vars>>

\* file.write(chunk) raises: nothing in download_data catches it
WriteFail ==
    /\ op = "download" /\ pc = "write" /\ disk[file_path] < file_size
    /\ pc' = "error"
    /\ err' = "IOError"
    /\ io_error_at' = requests
    /\ UNCHANGED <<op, requests, statuses, download_vars,
                   filter_vars, label_vars, cases_vars, listing_vars>>

\* the body is exhausted: record the path under the key, end the status line
CloseFile ==
    /\ op = "download" /\ pc = "write" /\ disk[file_path] = file_size
    /\ file_dict' = DictSet(file_dict, ids_dict[file_count].key, AbsPath(file_path))
    /\ status_line' = NoLine
    /\ pc' = "for"
    /\ UNCHANGED <<op, err, requests, io_error_at, statuses, ids_dict, dir_path,
                   rename_ext_num, disk, file_count, downloaded, response, file_name,
                   file_path, file_size, opened,
                   filter_vars, label_vars, cases_vars, listing_vars>>

\* the loop is over: return file_dict
ReturnFileDict ==
    /\ op = "download" /\ pc = "for" /\ file_count = Len(ids_dict)
    /\ pc' = "done"
    /\ UNCHANGED <<op, err, requests, io_error_at, statuses, download_vars,
                   filter_vars, label_vars, cases_vars, listing_vars>>

\* =================================================== download_data: claims
KeyAt(i) == ids_dict[i].key

\* the pass for the i-th key is over
Settled(i) == i < file_count \/ (i = file_count /\ pc \in {"for", "done"})

\* the body answered for the i-th key reached the disk in full
FullyWritten(i) ==
    \E j \in DOMAIN opened : opened[j].key = KeyAt(i) /\ opened[j].written = opened[j].size

\* C1: the mapping of download_data holds a key exactly when the GET for its UUID
\* answered 200 and the body was written in full; a non-200 answer adds no entry,
\* raises nothing, and the keys after it are still fetched.
C1_OnlySuccessfulKeys ==
    op = "download" =>
      /\ \A i \in DOMAIN ids_dict :
            KeyAt(i) \in DOMAIN file_dict
              <=> (Settled(i) /\ statuses[i] = 200 /\ FullyWritten(i))
      /\ (statuses # <<>> /\ statuses[Len(statuses)] # 200)
            => (pc \in {"for", "done"} /\ err = "")
      /\ pc = "done" => (requests = Len(ids_dict) /\ Len(statuses) = Len(ids_dict))

C1_Witness ==
    /\ op = "download" /\ pc = "done"
    /\ statuses = <<404, 200>>
    /\ DOMAIN file_dict = {"k2"}

\* the name the server suggested, read off the header it built
Suggested == SubSeq(response.headers["Content-Disposition"],
                    Len(ContentDisposition(<<>>)) + 1,
                    Len(response.headers["Content-Disposition"]))

\* the dot-separated segments of a name, left to right
RECURSIVE Segments(_)
Segments(s) ==
    IF \A i \in DOMAIN s : s[i] # "." THEN <<s>>
    ELSE LET d == CHOOSE i \in DOMAIN s : s[i] = "." /\ \A j \in 1..(i - 1) : s[j] # "."
         IN  <<SubSeq(s, 1, d - 1)>> \o Segments(SubSeq(s, d + 1, Len(s)))

\* the concatenation of a sequence of strings
RECURSIVE Concat(_)
Concat(ss) == IF ss = <<>> THEN <<>> ELSE ss[1] \o Concat(Tail(ss))

UuidThenLast(name, uuid, m) ==
    LET segs == Segments(name)
    IN  uuid \o Concat([i \in 1..m |-> <<".">> \o segs[Len(segs) - m + i]])

AtOpen == op = "download" /\ pc = "open"
Collides == OsPathJoin(dir_path, Suggested) \in DOMAIN disk
CurrentUuid == ids_dict[file_count].uuid

\* C2 as stated: on a collision the name is the UUID followed by the last
\* rename_ext_num dot-separated segments of the suggested name; without a
\* collision the suggested name is used unchanged.
C2_LastSegmentsKept ==
    AtOpen =>
      file_name = IF Collides
                  THEN UuidThenLast(Suggested, CurrentUuid,
                                    Min(rename_ext_num, Len(Segments(Suggested))))
                  ELSE Suggested

\* C2 amended: on a collision the name is the UUID followed by the last
\* min(rename_ext_num, number of dots in the suggested name) dot-separated
\* segments of the suggested name, so the stem is never kept; without a
\* collision the suggested name is used unchanged; the file is opened under
\* that name in the target directory.
C2_ExtensionsKept ==
    /\ AtOpen =>
         file_name = IF Collides
                     THEN UuidThenLast(Suggested, CurrentUuid,
                                       Min(rename_ext_num, Len(Segments(Suggested)) - 1))
                     ELSE Suggested
    /\ (op = "download" /\ pc = "write") =>
         opened[Len(opened)].path = OsPathJoin(dir_path, file_name)

C2_Witness ==
    /\ AtOpen /\ Collides
    /\ Suggested = <<"a", ".", "b", ".", "c">>
    /\ rename_ext_num = 2
    /\ file_name = CurrentUuid \o <<".", "b", ".", "c">>

\* C7 as stated: a local I/O error halts only the file it hit; the keys after it
\* are still fetched and the call returns the mapping of the other files.
C7_BatchSurvivesIOError ==
    (op = "download" /\ io_error_at # 0) =>
      /\ pc # "error"
      /\ pc = "done" => requests = Len(ids_dict)

\* C7 amended: a local I/O error leaves download_data as an exception: no key
\* after the failing one is fetched, the failing key gets no entry and no
\* mapping is returned.
C7_IOErrorAbortsBatch ==
    (op = "download" /\ io_error_at # 0) =>
      /\ pc = "error" /\ err = "IOError"
      /\ requests = io_error_at /\ file_count = io_error_at
      /\ KeyAt(file_count) \notin DOMAIN file_dict

C7_Witness ==
    /\ op = "download" /\ pc = "error" /\ io_error_at = 1
    /\ Len(ids_dict) = 2 /\ requests = 1
    /\ opened # <<>> /\ opened[1].written > 0

\* C9: no file that was in the directory before an item's download is opened for
\* writing by it, so the downloaded keys map to pairwise distinct paths.
C9_NoExistingFileOpened ==
    op = "download" =>
      /\ \A j \in DOMAIN opened : ~opened[j].existed
      /\ \A k1, k2 \in DOMAIN file_dict : k1 # k2 => file_dict[k1] # file_dict[k2]

\* C10: every progress update shows the bytes written so far, never more than the
\* declared size, the declared size after the last chunk, and a file counter
\* between 1 and the number of keys.
C10_ProgressIsBytesWritten ==
    (op = "download" /\ status_line.shown) =>
      /\ status_line.downloaded = disk[file_path]
      /\ status_line.downloaded <= status_line.file_size
      /\ disk[file_path] = file_size => status_line.downloaded = file_size
      /\ status_line.file_count \in 1..Len(ids_dict)

\* ------------------------------------------------- the JSON the server sends
\* the envelope of a search answer
Envelope(hits, page, pages, tot) ==
    [d \in {"data"} |->
        [hits |-> hits, pagination |-> [page |-> page, pages |-> pages, total |-> tot]]]

\* the body of a non-success answer: a message, no "data"
ErrorDoc == [d \in {"message"} |-> "error"]

\* what a search endpoint may answer when its answer would be env
SearchResponses(env) ==
    {[status_code |-> 200, json |-> env], [status_code |-> 404, json |-> ErrorDoc]}

\* the first n identifiers the server holds, as hits with the field named f
FirstHits(f, n) == [i \in 1..n |-> [x \in {f} |-> i]]

\* ------------------------------------------------ and_eq_filter_constructor
Fields == {"f1", "f2", "f3"}
Values == {"x", "y"}

\* the orders in which a dict with the keys S may be iterated
Orders(S) ==
    {o \in [1..Cardinality(S) -> S] : \A i, j \in 1..Cardinality(S) : o[i] = o[j] => i = j}

InitFilter ==
    /\ op = "filter"
    /\ pc = "for"
    /\ \E D \in SUBSET Fields : filter_dict \in [D -> Values]
    /\ key_order \in Orders(DOMAIN filter_dict)
    /\ operands_list = <<>>
    /\ query_filter = [op |-> "", content |-> <<>>]

\* the comparison built for one key
OperandSwapped(key, value) == [op |-> "=", content |-> [field |-> value, value |-> key]]
Operand(key, value) == [op |-> "=", content |-> [field |-> key, value |-> value]]

\* one pass of the for loop
AppendOperand ==
    /\ op = "filter" /\ pc = "for" /\ Len(operands_list) < Len(key_order)
    /\ operands_list' = Append(operands_list,
                                Operand(key_order[Len(operands_list) + 1],
                                        filter_dict[key_order[Len(operands_list) + 1]]))
    /\ UNCHANGED <<op, pc, err, requests, io_error_at, statuses, filter_dict, key_order,
                   query_filter, download_vars, label_vars, cases_vars, listing_vars>>

ReturnFilter ==
    /\ op = "filter" /\ pc = "for" /\ Len(operands_list) = Len(key_order)
    /\ query_filter' = [op |-> "and", content |-> operands_list]
    /\ pc' = "done"
    /\ UNCHANGED <<op, err, requests, io_error_at, statuses, filter_dict, key_order,
                   operands_list, download_vars, label_vars, cases_vars, listing_vars>>

\* ---------------------------------------- get_all_project_ids, get_files_uuids
InitListing ==
    /\ op \in {"projects", "files"}
    /\ pc = "count"
    /\ server_total \in 0..MaxN
    /\ total = 0
    /\ id_list = <<>>

\* the first request of get_all_project_ids: read the total out of the answer
ProjectsCount ==
    /\ op = "projects" /\ pc = "count"
    /\ \E r \in SearchResponses(Envelope(FirstHits("project_id", Min(size, server_total)),
                                          1, 1, server_total)) :
        /\ requests' = requests + 1
        /\ statuses' = Append(statuses, r.status_code)
        /\ IF "data" \in DOMAIN r.json
           THEN /\ total' = r.json["data"].pagination.total
                /\ pc' = "fetch"
                /\ err' = err
           ELSE /\ pc' = "error"
                /\ err' = "KeyError"
                /\ total' = total
    /\ UNCHANGED <<op, io_error_at, server_total, id_list, filter_vars, download_vars,
                   label_vars, cases_vars>>

\* the second request, with size = total: return the project_id of every hit
ProjectsFetch ==
    /\ op = "projects" /\ pc = "fetch"
    /\ \E r \in SearchResponses(Envelope(FirstHits("project_id", Min(total, server_total)),
                                          1, 1, server_total)) :
        /\ requests' = requests + 1
        /\ statuses' = Append(statuses, r.status_code)
        /\ IF "data" \in DOMAIN r.json
           THEN /\ id_list' = [i \in DOMAIN r.json["data"].hits |->
                                  r.json["data"].hits[i]["project_id"]]
                /\ pc' = "done"
                /\ err' = err
           ELSE /\ pc' = "error"
                /\ err' = "KeyError"
                /\ id_list' = id_list
    /\ UNCHANGED <<op, io_error_at, server_total, total, filter_vars, download_vars,
                   label_vars, cases_vars>>

\* the POST of get_files_uuids: read the total out of the answer
FilesCount ==
    /\ op = "files" /\ pc = "count"
    /\ \E r \in SearchResponses(Envelope(FirstHits("file_id", Min(size, server_total)),
                                          1, 1, server_total)) :
        /\ requests' = requests + 1
        /\ statuses' = Append(statuses, r.status_code)
        /\ IF "data" \in DOMAIN r.json
           THEN /\ total' = r.json["data"].pagination.total
                /\ pc' = "fetch"
                /\ err' = err
           ELSE /\ pc' = "error"
                /\ err' = "KeyError"
                /\ total' = total
    /\ UNCHANGED <<op, io_error_at, server_total, id_list, filter_vars, download_vars,
                   label_vars, cases_vars>>

\* the GET with size = total: return the file_id of every hit
FilesFetch ==
    /\ op = "files" /\ pc = "fetch"
    /\ \E r \in SearchResponses(Envelope(FirstHits("file_id", Min(total, server_total)),
                                          1, 1, server_total)) :
        /\ requests' = requests + 1
        /\ statuses' = Append(statuses, r.status_code)
        /\ IF "data" \in DOMAIN r.json
           THEN /\ id_list' = [i \in DOMAIN r.json["data"].hits |->
                                  r.json["data"].hits[i]["file_id"]]
                /\ pc' = "done"
                /\ err' = err
           ELSE /\ pc' = "error"
                /\ err' = "KeyError"
                /\ id_list' = id_list
    /\ UNCHANGED <<op, io_error_at, server_total, total, filter_vars, download_vars,
                   label_vars, cases_vars>>

\* -------------------------------------------------------------- label_files
\* the values a label field may hold: a scalar, a list, a mapping
Scalar(x) == [t |-> "s", s |-> x, kids |-> <<>>]
List(kids) == [t |-> "l", s |-> "", kids |-> kids]
Mapping(kids) == [t |-> "d", s |-> "", kids |-> kids]

LabelValues ==
    {Scalar("A"), Scalar("B"),
     List(<<Scalar("A"), Scalar("B")>>), List(<<>>),
     Mapping(<<Scalar("A"), Scalar("B")>>), Mapping(<<>>),
     List(<<List(<<Scalar("B")>>)>>), List(<<Mapping(<<Scalar("A")>>)>>)}

FileIds == {"u", "v"}

\* what the unwrapping loop may end with
Resolved(x) == [kind |-> "scalar", s |-> x, id |-> 0]
ValuesView(i) == [kind |-> "dict_values", s |-> "", id |-> i]
IndexError == [kind |-> "IndexError", s |-> "", id |-> 0]

\* the while loop on one label.  A list gives its first element and raises when
\* empty.  A mapping gives label.values(): under Python 2 a list in an order the
\* code does not fix, so the next pass takes any one of the values; under
\* Python 3 a view that is neither list nor dict, so the loop ends with the
\* view itself, an object equal to no other (i names the hit it came from).
RECURSIVE Unwrap(_, _, _)
Unwrap(label, i, py) ==
    IF label.t = "s" THEN {Resolved(label.s)}
    ELSE IF label.t = "l"
    THEN IF label.kids = <<>> THEN {IndexError} ELSE Unwrap(label.kids[1], i, py)
    ELSE IF py = 3 THEN {ValuesView(i)}
    ELSE IF label.kids = <<>> THEN {IndexError}
    ELSE UNION {Unwrap(label.kids[j], i, py) : j \in DOMAIN label.kids}

InitLabel ==
    /\ op = "label"
    /\ pc = "post"
    /\ python_major \in {2, 3}
    /\ \E n \in 0..MaxHits :
          label_hits \in [1..n -> [file_id : FileIds, label : LabelValues]]
    /\ hit_index = 0
    /\ labels = <<>>
    /\ uuids_dict = EmptyDict

\* uuids_dict[label] = hit['file_id']
BindLabelFirst(d, label, file_id) == DictSetDefault(d, label, file_id)
BindLabel(d, label, file_id) == DictSet(d, label, file_id)

\* the POST and the status test: the hits are read only from a 200 answer, any
\* other status goes straight to the return of the empty uuids_dict
LabelPost ==
    /\ op = "label" /\ pc = "post"
    /\ \E r \in SearchResponses(Envelope(label_hits, 1, 1, Len(label_hits))) :
        /\ requests' = requests + 1
        /\ statuses' = Append(statuses, r.status_code)
        /\ IF IsOk(r.status_code)
           THEN IF "data" \in DOMAIN r.json
                THEN pc' = "for" /\ err' = err
                ELSE pc' = "error" /\ err' = "KeyError"
           ELSE pc' = "done" /\ err' = err
    /\ UNCHANGED <<op, io_error_at, label_vars, filter_vars, download_vars, cases_vars,
                   listing_vars>>

\* one pass of the for loop over the hits
LabelHit ==
    /\ op = "label" /\ pc = "for" /\ hit_index < Len(label_hits)
    /\ \E r \in Unwrap(label_hits[hit_index + 1].label, hit_index + 1, python_major) :
        IF r = IndexError
        THEN /\ pc' = "error"
             /\ err' = "IndexError"
             /\ UNCHANGED <<hit_index, labels, uuids_dict>>
        ELSE /\ uuids_dict' = BindLabel(uuids_dict, r, label_hits[hit_index + 1].file_id)
             /\ labels' = Append(labels, r)
             /\ hit_index' = hit_index + 1
             /\ UNCHANGED <<pc, err>>
    /\ UNCHANGED <<op, requests, io_error_at, statuses, python_major, label_hits,
                   filter_vars, download_vars, cases_vars, listing_vars>>

ReturnUuidsDict ==
    /\ op = "label" /\ pc = "for" /\ hit_index = Len(label_hits)
    /\ pc' = "done"
    /\ UNCHANGED <<op, err, requests, io_error_at, statuses, label_vars, filter_vars,
                   download_vars, cases_vars, listing_vars>>

\* --------------------------------------------------------- get_all_case_ids
\* the sub-objects a case may carry
SubObjects ==
    {EmptyDict,
     [k \in {"sex"} |-> "male"],
     [k \in {"sex"} |-> "unknown"],
     [k \in {"submitter_id"} |-> "x"],
     [k \in {"sex", "submitter_id"} |-> IF k = "sex" THEN "male" ELSE "x"]}

DiagnosesLists ==
    {<<d>> : d \in SubObjects} \cup {<<d, [k \in {"sex"} |-> "unknown"]>> : d \in SubObjects}

\* the cases the server holds differ in case_id only; a sub-resource a case
\* lacks is left out of its hit, and an expanded diagnoses list is not empty
CaseHits ==
    {[keys |-> ks, case_id |-> 0, submitter_id |-> "S",
      diagnoses |-> IF "diagnoses" \in ks THEN dg ELSE <<>>,
      demographic |-> IF "demographic" \in ks THEN dm ELSE EmptyDict,
      project |-> IF "project" \in ks THEN pr ELSE EmptyDict] :
        ks \in SUBSET {"diagnoses", "demographic", "project"},
        dg \in DiagnosesLists, dm \in SubObjects, pr \in SubObjects}

HitOf(id) == [case_hit EXCEPT !.case_id = id]

\* the answer to a request for sz records from record number from, out of T
CasesEnvelope(T, from, sz) ==
    Envelope([i \in 1..(IF T - from + 1 < 0 THEN 0 ELSE Min(sz, T - from + 1)) |->
                 HitOf(from + i - 1)],
             ((from - 1) \div sz) + 1,
             (T + sz - 1) \div sz,
             T)

InitCases ==
    /\ op = "cases"
    /\ pc = "while"
    /\ server_cases \in 1..MaxT
    /\ case_hit \in CaseHits
    /\ cur_page = 0
    /\ total_pages = 1
    /\ cases_dataframe = <<>>
    /\ cases_tsv = <<>>

\* while (total_pages > cur_page)
LoopCondGe(tp, cp) == tp >= cp
LoopCond(tp, cp) == tp > cp

\* from_record = size * cur_page + 1
FromRecord(cp) == size * cp + 1

\* the merge of one hit into case_record
CaseRecord(hit) ==
    LET r0 == EmptyDict
        r1 == IF "diagnoses" \in hit.keys THEN DictUpdate(r0, hit.diagnoses[1]) ELSE r0
        r2 == IF "demographic" \in hit.keys THEN DictUpdate(r1, hit.demographic) ELSE r1
        r3 == IF "project" \in hit.keys THEN DictUpdate(r2, hit.project) ELSE r2
    IN  DictSet(r3, "submitter_id", hit.submitter_id)

\* one pass of the while loop: the request, the page numbers, a row per hit
CasesPage ==
    /\ op = "cases" /\ pc = "while" /\ LoopCond(total_pages, cur_page)
    /\ \E r \in SearchResponses(CasesEnvelope(server_cases, FromRecord(cur_page), size)) :
        /\ requests' = requests + 1
        /\ statuses' = Append(statuses, r.status_code)
        /\ IF "data" \in DOMAIN r.json
           THEN /\ cur_page' = r.json["data"].pagination.page
                /\ total_pages' = r.json["data"].pagination.pages
                /\ cases_dataframe' = cases_dataframe \o
                      [i \in DOMAIN r.json["data"].hits |->
                          [index |-> r.json["data"].hits[i].case_id,
                           record |-> CaseRecord(r.json["data"].hits[i])]]
                /\ UNCHANGED <<pc, err>>
           ELSE /\ pc' = "error"
                /\ err' = "KeyError"
                /\ UNCHANGED <<cur_page, total_pages, cases_dataframe>>
    /\ UNCHANGED <<op, io_error_at, server_cases, case_hit, cases_tsv, filter_vars,
                   download_vars, label_vars, listing_vars>>

\* the loop is over: cases_dataframe.to_csv('cases.tsv')
WriteCasesTsv ==
    /\ op = "cases" /\ pc = "while" /\ ~LoopCond(total_pages, cur_page)
    /\ cases_tsv' = cases_dataframe
    /\ pc' = "done"
    /\ UNCHANGED <<op, err, requests, io_error_at, statuses, server_cases, case_hit,
                   cur_page, total_pages, cases_dataframe, filter_vars, download_vars,
                   label_vars, listing_vars>>

\* ==================================================== query functions: claims
\* the number of pages of sz records that hold T records
PagesFor(T, sz) == CHOOSE n \in 0..T : n * sz >= T /\ (n - 1) * sz < T

AllOk == \A i \in DOMAIN statuses : statuses[i] = 200

\* C3: against a server holding T >= 1 cases and serving them in pages of 10,
\* the page-walk ends after exactly ceil(T/10) requests and the table holds
\* exactly T rows, one per record, none skipped and none twice.
C3_PageWalk ==
    op = "cases" =>
      /\ requests <= PagesFor(server_cases, 10)
      /\ AllOk =>
           /\ Len(cases_dataframe) = Min(10 * requests, server_cases)
           /\ \A i \in DOMAIN cases_dataframe : cases_dataframe[i].index = i
           /\ requests < PagesFor(server_cases, 10) => pc = "while"
      /\ pc = "done" =>
           /\ requests = PagesFor(server_cases, 10)
           /\ Len(cases_tsv) = server_cases
           /\ \A id \in 1..server_cases :
                 Cardinality({i \in DOMAIN cases_tsv : cases_tsv[i].index = id}) = 1

C3_Witness ==
    /\ op = "cases" /\ pc = "done"
    /\ server_cases = 25 /\ requests = 3 /\ Len(cases_tsv) = 25

\* the value the claim gives the column k of the row of hit h
MergedValue(h, k) ==
    IF k = "submitter_id" THEN h.submitter_id
    ELSE IF "project" \in h.keys /\ k \in DOMAIN h.project THEN h.project[k]
    ELSE IF "demographic" \in h.keys /\ k \in DOMAIN h.demographic THEN h.demographic[k]
    ELSE h.diagnoses[1][k]

MergedColumns(h) ==
    {"submitter_id"}
    \cup (IF "project" \in h.keys THEN DOMAIN h.project ELSE {})
    \cup (IF "demographic" \in h.keys THEN DOMAIN h.demographic ELSE {})
    \cup (IF "diagnoses" \in h.keys THEN DOMAIN h.diagnoses[1] ELSE {})

\* C4: the row of every hit is the merge of diagnoses[0], demographic and project,
\* the later of them winning a shared key; only the first diagnosis contributes;
\* submitter_id is the top-level submitter_id of the hit.
C4_MergeOrder ==
    op = "cases" =>
      \A i \in DOMAIN cases_dataframe :
        LET h == HitOf(cases_dataframe[i].index)
            row == cases_dataframe[i].record
        IN  /\ DOMAIN row = MergedColumns(h)
            /\ \A k \in DOMAIN row : row[k] = MergedValue(h, k)

C4_Witness ==
    /\ op = "cases" /\ cases_dataframe # <<>>
    /\ case_hit.keys = {"diagnoses", "demographic", "project"}
    /\ Len(case_hit.diagnoses) = 2
    /\ case_hit.diagnoses[1] = [k \in {"sex", "submitter_id"} |->
                                   IF k = "sex" THEN "male" ELSE "x"]
    /\ case_hit.demographic = [k \in {"sex"} |-> "male"]
    /\ case_hit.project = [k \in {"sex"} |-> "unknown"]
    /\ cases_dataframe[1].record["sex"] = "unknown"
    /\ cases_dataframe[1].record["submitter_id"] = "S"

\* the last hit processed so far whose label resolved to l
LastWith(l) ==
    CHOOSE i \in DOMAIN labels : labels[i] = l /\ \A j \in DOMAIN labels : labels[j] = l => j <= i

\* C5: the mapping of label_files has exactly one entry per distinct resolved
\* label, bound to the file_id of the last hit, in response order, that resolved
\* to that label.
C5_LastHitWins ==
    op = "label" =>
      /\ DOMAIN uuids_dict = {labels[i] : i \in DOMAIN labels}
      /\ \A l \in DOMAIN uuids_dict : uuids_dict[l] = label_hits[LastWith(l)].file_id
      /\ (pc = "done" /\ AllOk) => Len(labels) = Len(label_hits)

C5_Witness ==
    /\ op = "label" /\ pc = "done"
    /\ Len(labels) = 2 /\ labels[1] = labels[2]
    /\ label_hits[1].file_id = "u" /\ label_hits[2].file_id = "v"
    /\ label_hits[1].label # label_hits[2].label
    /\ Cardinality(DOMAIN uuids_dict) = 1
    /\ uuids_dict[labels[1]] = "v"

\* the children of the tree that compare the field k
ChildrenOf(k) ==
    {i \in DOMAIN query_filter.content : query_filter.content[i].content.field = k}

FilterTreeOk ==
    (op = "filter" /\ pc = "done") =>
      /\ query_filter.op = "and"
      /\ Len(query_filter.content) = Cardinality(DOMAIN filter_dict)
      /\ \A k \in DOMAIN filter_dict :
            /\ Cardinality(ChildrenOf(k)) = 1
            /\ \A i \in ChildrenOf(k) :
                  /\ query_filter.content[i].op = "="
                  /\ query_filter.content[i].content.value = filter_dict[k]

\* C6: for every flat mapping the tree returned by and_eq_filter_constructor has
\* the root operator "and" and exactly one child per key, an "=" comparison of
\* that key with its value; the input mapping is never changed.
C6_FilterTree ==
    /\ []FilterTreeOk
    /\ [][op = "filter" => filter_dict' = filter_dict]_vars

C6_Witness ==
    /\ op = "filter" /\ pc = "done"
    /\ DOMAIN filter_dict = {"f1", "f2"}
    /\ filter_dict["f1"] = "x" /\ filter_dict["f2"] = "y"
    /\ Len(query_filter.content) = 2

Search == op \in {"projects", "files", "label", "cases"}
Failed == \E i \in DOMAIN statuses : statuses[i] # 200
NoResult == id_list = <<>> /\ cases_tsv = <<>> /\ DOMAIN uuids_dict = {}

\* C8 as stated: in every listing or search function a non-success status aborts
\* the call with an error: nothing is returned, no further request is issued.
C8_FailureAborts ==
    (Search /\ Failed) =>
      /\ pc = "error"
      /\ statuses[Len(statuses)] # 200
      /\ \A i \in 1..(Len(statuses) - 1) : statuses[i] = 200

\* C8 amended: in get_all_project_ids, get_files_uuids and get_all_case_ids a
\* non-success answer, whose body has no "data", aborts the call with an error:
\* nothing is returned or written and no further request is issued; label_files
\* returns an empty mapping, raises nothing and issues no further request.
C8_FailureAbortsButLabel ==
    (Search /\ Failed) =>
      /\ statuses[Len(statuses)] # 200
      /\ \A i \in 1..(Len(statuses) - 1) : statuses[i] = 200
      /\ requests = Len(statuses)
      /\ NoResult
      /\ IF op = "label"
         THEN pc = "done" /\ err = "" /\ requests = 1
         ELSE pc = "error" /\ err = "KeyError"

C8_Witness ==
    \/ op = "label" /\ Failed /\ pc = "done" /\ label_hits # <<>>
    \/ op = "cases" /\ Failed /\ pc = "error" /\ requests = 2 /\ server_cases = 25

\* ------------------------------------------------------------- idle values
IdleFilter ==
    /\ filter_dict = EmptyDict /\ key_order = <<>> /\ operands_list = <<>>
    /\ query_filter = [op |-> "", content |-> <<>>]

IdleLabel ==
    /\ python_major = 3 /\ label_hits = <<>> /\ hit_index = 0 /\ labels = <<>> /\ uuids_dict = EmptyDict

IdleCases ==
    /\ server_cases = 0 /\ case_hit = <<>> /\ cur_page = 0 /\ total_pages = 1
    /\ cases_dataframe = <<>> /\ cases_tsv = <<>>

IdleListing ==
    /\ server_total = 0 /\ total = 0 /\ id_list = <<>>

InitCommon ==
    /\ err = "" /\ requests = 0 /\ io_error_at = 0 /\ statuses = <<>>

\* ----------------------------------------------------------- specifications
InitD == InitCommon /\ InitDownload /\ IdleFilter /\ IdleLabel /\ IdleCases /\ IdleListing

NextD ==
    \/ Get
    \/ Open
    \/ OpenFail
    \/ WriteChunk
    \/ WriteFail
    \/ CloseFile
    \/ ReturnFileDict

SpecDownload == InitD /\ [][NextD]_vars

InitQ ==
    /\ InitCommon
    /\ IdleDownload
    /\ \/ InitFilter /\ IdleLabel /\ IdleCases /\ IdleListing
       \/ InitListing /\ IdleFilter /\ IdleLabel /\ IdleCases
       \/ InitLabel /\ IdleFilter /\ IdleCases /\ IdleListing
       \/ InitCases /\ IdleFilter /\ IdleLabel /\ IdleListing

NextQ ==
    \/ AppendOperand
    \/ ReturnFilter
    \/ ProjectsCount
    \/ ProjectsFetch
    \/ FilesCount
    \/ FilesFetch
    \/ LabelPost
    \/ LabelHit
    \/ ReturnUuidsDict
    \/ CasesPage
    \/ WriteCasesTsv

SpecQuery == InitQ /\ [][NextQ]_vars

====
